---------------------------- MODULE Spec2Model ----------------------------
(***************************************************************************)
(* kloudlib: the NginxIngress, Grafana and MetalLB components.  Each       *)
(* component's constructor maps its inputs (props) to the values tree it   *)
(* hands to the Helm chart, and to the outputs it exposes.                 *)
(*                                                                         *)
(* Encoding of TypeScript values:                                          *)
(*   - an optional value is a set: {} is undefined, {v} is the value v;    *)
(*   - an object is a function from its keys (strings) to values;          *)
(*   - an array is a sequence;                                             *)
(*   - a key of a values object whose value is undefined is kept, with     *)
(*     value {}: the engine drops it when it serialises the tree, so a     *)
(*     block is "absent" exactly when its value is {}.                     *)
(***************************************************************************)
EXTENDS Integers, Sequences, FiniteSets, TLC

VARIABLES
    name,       \* the instance name given to the constructor
    nginx,      \* the NginxIngress instance ({} before it is constructed)
    grafana,    \* the Grafana instance ({} before it is constructed)
    metallb,    \* the MetalLB instance ({} before it is constructed)
    stack       \* the engine's state of the stack: the number of updates done,
                \* and each resource's [args, result] by its logical name

vars == <<name, nginx, grafana, metallb, stack>>

-----------------------------------------------------------------------------
(* Bounds of the model *)

\* replica counts tried: 0 .. MaxReplicas
MaxReplicas == 3
\* address pool lists of up to MaxPools pools
MaxPools == 2
\* the random provider draws one of MaxSeed + 1 strings
MaxSeed == 2
\* the program is run (the stack updated) up to MaxRuns times
MaxRuns == 2

-----------------------------------------------------------------------------
(* TypeScript operators *)

undefined == {}

Some(v) == {v}

Val(o) == CHOOSE v \in o : TRUE

\* o ?? d
Nullish(o, d) == IF o = undefined THEN d ELSE Val(o)

\* o?.f, for o an optional object with optional fields
Chain(o, f) == IF o = undefined THEN undefined ELSE Val(o)[f]

\* o?.f, for o an optional object and f a required field of it
ChainRequired(o, f) == IF o = undefined THEN undefined ELSE Some(Val(o)[f])

\* truthiness of an optional string: undefined and '' are falsy
TruthyString(o) == o # undefined /\ Val(o) # ""

EmptyObject == [k \in {} |-> ""]

\* { ...a, ...b }: the keys of b are written after those of a
Spread(a, b) == [k \in DOMAIN a \cup DOMAIN b |-> IF k \in DOMAIN b THEN b[k] ELSE a[k]]

\* lodash merge({}, a, b) for objects: b's keys are assigned over a's, a source
\* value that is undefined is skipped when the destination has the key
Merge(a, b) ==
    [k \in DOMAIN a \cup DOMAIN b |->
        IF k \notin DOMAIN b THEN a[k]
        ELSE IF k \notin DOMAIN a THEN b[k]
        ELSE IF b[k] = undefined THEN a[k] ELSE b[k]]

DigitChar == <<"0", "1", "2", "3", "4", "5", "6", "7", "8", "9">>

\* the decimal digits of a non-negative integer
RECURSIVE Digits(_)
Digits(n) == IF n < 10 THEN <<n>> ELSE Append(Digits(n \div 10), n % 10)

RECURSIVE JoinDigits(_)
JoinDigits(ds) == IF ds = <<>> THEN "" ELSE DigitChar[Head(ds) + 1] \o JoinDigits(Tail(ds))

\* String(n) / `${n}` for a non-negative integer: a property key is its digits
NumberToString(n) == JoinDigits(Digits(n))

\* Number(key) for a key of decimal digits
RECURSIVE Number(_)
Number(ds) == IF ds = <<>> THEN 0 ELSE 10 * Number(SubSeq(ds, 1, Len(ds) - 1)) + ds[Len(ds)]

-----------------------------------------------------------------------------
(* NginxIngress: src/packages/nginx-ingress/index.ts *)

Names == {"main", "edge"}

\* the anti-affinity block of deploymentValues
AntiAffinity ==
    [podAntiAffinity |->
        [preferredDuringSchedulingIgnoredDuringExecution |->
            << [weight |-> 1,
                podAffinityTerm |->
                    [topologyKey |-> "kubernetes.io/hostname",
                     labelSelector |->
                        [matchExpressions |->
                            << [key |-> "app", operator |-> "In", values |-> <<"nginx-ingress">>],
                               [key |-> "component", operator |-> "In", values |-> <<"controller">>] >>]]] >>]]

daemonSetValues(mode) ==
    [kind |-> "DaemonSet",
     reportNodeInternalIp |-> TRUE,
     service |-> [enabled |-> FALSE],
     daemonset |-> [useHostPort |-> TRUE]]

deploymentValuesNoAffinityAtTwo(mode) ==
    LET replicas == Nullish(mode.replicas, 1)
    IN  [kind |-> "Deployment",
         replicaCount |-> replicas,
         service |-> [type |-> "LoadBalancer",
                      loadBalancerIP |-> mode.loadBalancerIP,
                      externalTrafficPolicy |-> "Local",
                      annotations |-> mode.serviceAnnotations],
         affinity |-> IF replicas <= 2 THEN undefined ELSE Some(AntiAffinity)]

deploymentValues(mode) ==
    LET replicas == Nullish(mode.replicas, 1)
    IN  [kind |-> "Deployment",
         replicaCount |-> replicas,
         service |-> [type |-> "LoadBalancer",
                      loadBalancerIP |-> mode.loadBalancerIP,
                      externalTrafficPolicy |-> "Local",
                      annotations |-> mode.serviceAnnotations],
         affinity |-> IF replicas <= 1 THEN undefined ELSE Some(AntiAffinity)]

DefaultMode ==
    [kind |-> "Deployment", replicas |-> Some(1),
     loadBalancerIP |-> undefined, serviceAnnotations |-> undefined]

controllerValues(props) ==
    LET mode == Chain(props, "mode")
        kind == ChainRequired(mode, "kind")
    IN  IF kind = Some("DaemonSet") THEN daemonSetValues(Val(mode))
        ELSE IF kind = Some("Deployment") THEN deploymentValues(Val(mode))
        ELSE deploymentValues(DefaultMode)

\* Object.entries(props): the [key, value] pairs, integer keys in ascending order
RECURSIVE Entries(_)
Entries(table) ==
    IF DOMAIN table = {} THEN <<>>
    ELSE LET k == CHOOSE p \in DOMAIN table : \A q \in DOMAIN table : p <= q
         IN  <<[key |-> Digits(k), value |-> table[k]]>>
             \o Entries([p \in DOMAIN table \ {k} |-> table[p]])

\* pulumi.interpolate`${value.namespace}/${value.serviceName}:${value.servicePort}`
Locator(value) ==
    value.namespace \o "/" \o value.serviceName \o ":" \o NumberToString(value.servicePort)

\* l4Loop with a table that is started again at each entry
RECURSIVE l4LoopKeepsLast(_, _)
l4LoopKeepsLast(entries, backends) ==
    IF entries = <<>> THEN backends
    ELSE l4LoopKeepsLast(Tail(entries),
                         Number(Head(entries).key) :> Locator(Head(entries).value))

\* the loop of l4Services over the entries, from the backends built so far
RECURSIVE l4Loop(_, _)
l4Loop(entries, backends) ==
    IF entries = <<>> THEN backends
    ELSE l4Loop(Tail(entries),
                Spread(backends, Number(Head(entries).key) :> Locator(Head(entries).value)))

l4Services(table) == l4Loop(Entries(table), EmptyObject)

NginxValues(n, props) ==
    [fullnameOverride |-> n,
     rbac |-> [create |-> TRUE],
     defaultBackend |-> [enabled |-> FALSE],
     controller |->
        Merge(controllerValues(props),
              [config |-> Chain(props, "config"),
               labels |-> [app |-> "nginx-ingress"],
               podLabels |-> [app |-> "nginx-ingress"],
               admissionWebhooks |-> [enabled |-> FALSE],
               metrics |-> [enabled |-> TRUE,
                            service |-> [type |-> "ClusterIP",
                                         servicePort |-> 10254,
                                         annotations |-> [scrape |-> "true", port |-> "10254"]]],
               maxmindLicenseKey |-> Chain(props, "maxmindLicenseKey")]),
     tcp |-> l4Services(Nullish(Chain(props, "tcpServices"), EmptyObject)),
     udp |-> l4Services(Nullish(Chain(props, "udpServices"), EmptyObject))]

\* ingressChart.getResource('v1/Service', [namespace,] `${name}-controller`)
IngressServiceRef(n, props) ==
    LET serviceName == n \o "-controller"
    IN  IF TruthyString(Chain(props, "namespace"))
        THEN [kind |-> "v1/Service", namespace |-> Chain(props, "namespace"), name |-> serviceName]
        ELSE [kind |-> "v1/Service", namespace |-> undefined, name |-> serviceName]

NginxMeta(props) ==
    [chart |-> "ingress-nginx",
     version |-> Nullish(Chain(props, "version"), "3.9.0"),
     repo |-> "https://kubernetes.github.io/ingress-nginx"]

(* the inputs tried *)

DbBackend == [namespace |-> "db", serviceName |-> "postgres", servicePort |-> 5432]

DnsBackend == [namespace |-> "kube-system", serviceName |-> "kube-dns", servicePort |-> 53]

TcpTables ==
    { undefined,
      Some(EmptyObject),
      Some(5432 :> DbBackend),
      Some(5432 :> DbBackend @@ 53 :> DnsBackend),
      Some(9000 :> DnsBackend @@ 80 :> DbBackend) }

UdpTables ==
    { undefined,
      Some(EmptyObject),
      Some(53 :> DnsBackend) }

DeploymentModes ==
    { [kind |-> "Deployment", replicas |-> r, loadBalancerIP |-> ip, serviceAnnotations |-> a] :
        r \in {undefined} \cup {Some(i) : i \in 0..MaxReplicas},
        ip \in {undefined, Some("10.0.0.1")},
        a \in {undefined, Some([tier |-> "edge"])} }

NginxModes == {undefined, Some([kind |-> "DaemonSet"])} \cup {Some(m) : m \in DeploymentModes}

NginxExtras ==
    { [version |-> undefined, config |-> undefined, maxmindLicenseKey |-> undefined],
      [version |-> Some("3.10.1"), config |-> Some([gzip |-> "true"]),
       maxmindLicenseKey |-> Some("key")] }

NginxInputs ==
    {undefined} \cup
    { Some([namespace |-> ns, mode |-> m, tcpServices |-> t, udpServices |-> u,
            version |-> x.version, config |-> x.config,
            maxmindLicenseKey |-> x.maxmindLicenseKey]) :
        ns \in {undefined, Some(""), Some("ingress")},
        m \in NginxModes, t \in TcpTables, u \in UdpTables, x \in NginxExtras }

\* new NginxIngress(name, props): an instance is constructed once in a run of
\* the program, its fields are readonly
BuildNginx(props) ==
    /\ stack.version < MaxRuns
    /\ nginx = undefined
    /\ nginx' = Some([props |-> props,
                      ingressClass |-> "nginx",
                      meta |-> NginxMeta(props),
                      values |-> NginxValues(name, props),
                      ingressService |-> IngressServiceRef(name, props)])
    /\ UNCHANGED <<name, grafana, metallb, stack>>

Init ==
    /\ name \in Names
    /\ nginx = undefined
    /\ grafana = undefined
    /\ metallb = undefined
    /\ stack = [version |-> 0, resources |-> EmptyObject]

\* the run of the program ends: its instances are gone, the engine keeps the
\* resources of the stack for the next run
EndRun ==
    /\ nginx # undefined \/ grafana # undefined \/ metallb # undefined
    /\ nginx' = undefined
    /\ grafana' = undefined
    /\ metallb' = undefined
    /\ stack' = [stack EXCEPT !.version = @ + 1]
    /\ UNCHANGED name

NextNginx ==
    \/ \E props \in NginxInputs : BuildNginx(props)
    \/ EndRun

SpecNginx == Init /\ [][NextNginx]_vars

-----------------------------------------------------------------------------
(* Grafana: src/packages/grafana/index.ts *)

ClassKey == "kubernetes.io/ingress.class"

TlsAcmeKey == "kubernetes.io/tls-acme"

\* array[i] of a TypeScript array (0-based): undefined outside the array
At(array, i) == IF i + 1 \in DOMAIN array THEN Some(array[i + 1]) ELSE undefined

\* `${o}` of an optional string
Template(o) == IF o = undefined THEN "undefined" ELSE Val(o)

\* `${o}` of an optional number
TemplateNumber(o) == IF o = undefined THEN "undefined" ELSE NumberToString(Val(o))

TlsAcmeOnlyWhenTrue(ingress) == IF ingress.tls = Some(TRUE) THEN "true" ELSE "false"

\* props.ingress.tls === false ? 'false' : 'true'
TlsAcme(ingress) == IF ingress.tls = Some(FALSE) THEN "false" ELSE "true"

IngressAnnotationsComputedLast(ingress) ==
    Spread(Nullish(ingress.annotations, EmptyObject),
           (ClassKey :> Nullish(ingress.class, "nginx")) @@ (TlsAcmeKey :> TlsAcme(ingress)))

\* the two computed annotations, then ...props.ingress.annotations
IngressAnnotations(ingress) ==
    Spread((ClassKey :> Nullish(ingress.class, "nginx")) @@ (TlsAcmeKey :> TlsAcme(ingress)),
           Nullish(ingress.annotations, EmptyObject))

IngressValues(n, props) ==
    LET ingress == Chain(props, "ingress")
    IN  IF ingress = undefined THEN [enabled |-> FALSE]
        ELSE [enabled |-> Nullish(Val(ingress).enabled, TRUE),
              annotations |-> IngressAnnotations(Val(ingress)),
              hosts |-> Val(ingress).hosts,
              tls |-> << [hosts |-> Val(ingress).hosts,
                          secretName |-> "tls-grafana-" \o n] >>]

PersistenceValues(props) ==
    LET persistence == Chain(props, "persistence")
    IN  IF persistence = undefined THEN [enabled |-> FALSE]
        ELSE [enabled |-> Val(persistence).enabled,
              size |-> TemplateNumber(Val(persistence).sizeGB) \o "Gi",
              storageClass |-> Val(persistence).storageClass]

\* the server block of grafana.ini, from props?.ingress?.hosts
ServerValues(props) ==
    LET hosts == Chain(Chain(props, "ingress"), "hosts")
    IN  IF hosts = undefined THEN undefined
        ELSE Some([domain |-> At(Val(hosts), 0),
                   root_url |-> "https://" \o Template(At(Val(hosts), 0))])

DatasourceValues(props) ==
    LET datasources == Chain(props, "datasources")
    IN  [apiVersion |-> 1,
         datasources |->
            IF datasources = undefined THEN <<>>
            ELSE [i \in DOMAIN Val(datasources) |->
                    [name |-> Val(datasources)[i].name,
                     type |-> Val(datasources)[i].type,
                     url |-> Val(datasources)[i].url,
                     access |-> "proxy",
                     basicAuth |-> FALSE,
                     editable |-> FALSE]]]

\* const { name, ...rest } = curr
Rest(curr) == [k \in DOMAIN curr \ {"name"} |-> curr[k]]

\* dashboards.reduce((prev, curr) => ({ ...prev, [name]: rest }), {})
RECURSIVE ReduceDashboards(_, _)
ReduceDashboards(dashboards, prev) ==
    IF dashboards = <<>> THEN prev
    ELSE ReduceDashboards(Tail(dashboards),
                          Spread(prev, Head(dashboards).name :> Rest(Head(dashboards))))

DashboardValues(props) ==
    LET dashboards == Chain(props, "dashboards")
    IN  IF dashboards = undefined THEN undefined
        ELSE Some([default |-> ReduceDashboards(Val(dashboards), EmptyObject)])

DashboardProviderValues(props) ==
    LET dashboards == Chain(props, "dashboards")
    IN  IF dashboards = undefined THEN undefined
        ELSE Some("dashboardproviders.yaml" :>
                    [apiVersion |-> 1,
                     providers |-> << [name |-> "default",
                                       orgId |-> 1,
                                       folder |-> "",
                                       type |-> "file",
                                       disableDeletion |-> FALSE,
                                       editable |-> TRUE,
                                       options |-> [path |-> "/var/lib/grafana/dashboards/default"]] >>])

GrafanaValues(n, props, password) ==
    [adminUser |-> "admin",
     adminPassword |-> password,
     ingress |-> IngressValues(n, props),
     deploymentStrategy |-> [type |-> "Recreate"],
     persistence |-> PersistenceValues(props),
     testFramework |-> [enabled |-> FALSE],
     datasources |-> ("datasources.yaml" :> DatasourceValues(props)),
     dashboards |-> DashboardValues(props),
     dashboardProviders |-> DashboardProviderValues(props)]
    @@ ("grafana.ini" :>
            (  [server |-> ServerValues(props)]
            @@ ("auth.anonymous" :> [enabled |-> "true", org_name |-> "Main Org.", org_role |-> "Editor"])
            @@ ("auth.basic" :> [enabled |-> "false"])))

GrafanaMeta(props) ==
    [chart |-> "grafana",
     version |-> Nullish(Chain(props, "version"), "4.2.2"),
     repo |-> "https://kubernetes-charts.storage.googleapis.com"]

\* the logical name of the RandomString resource
PasswordResource == "grafana-admin-password"

PasswordArgsShort == [length |-> 16, special |-> FALSE]

\* the arguments of the RandomString resource
PasswordArgs == [length |-> 32, special |-> FALSE]

(* The random provider and the engine, which the component calls: a resource that
   the stack already holds under the same logical name and with the same
   arguments keeps its result; otherwise the provider draws a new string. *)

SpecialChars == {"!", "#"}

Charset(special) == IF special THEN <<"a", "Z", "7", "!", "#">> ELSE <<"a", "Z", "7">>

\* a string of args.length characters of the charset, as the sequence of them
Generate(args, seed) ==
    LET cs == Charset(args.special)
    IN  [i \in 1..args.length |-> cs[((seed + i) % Len(cs)) + 1]]

RandomString(resource, args, seed) ==
    IF resource \in DOMAIN stack.resources /\ stack.resources[resource].args = args
    THEN stack.resources[resource]
    ELSE [args |-> args, result |-> Generate(args, seed)]

(* the inputs tried *)

CallerAnnotations ==
    { undefined,
      Some(ClassKey :> "custom"),
      Some(TlsAcmeKey :> "false"),
      Some((ClassKey :> "custom") @@ ("nginx.ingress.kubernetes.io/proxy-body-size" :> "8m")) }

HostLists == {undefined, Some(<<>>), Some(<<"grafana.example.com", "g.example.com">>)}

IngressSpecs ==
    { [enabled |-> undefined, class |-> c, tls |-> t, hosts |-> h, annotations |-> a] :
        c \in {undefined, Some("traefik")},
        t \in {undefined, Some(TRUE), Some(FALSE)},
        h \in HostLists,
        a \in CallerAnnotations }
    \cup
    { [enabled |-> Some(FALSE), class |-> undefined, tls |-> undefined,
       hosts |-> h, annotations |-> undefined] : h \in HostLists }

DashboardLists ==
    { undefined,
      Some(<<>>),
      Some(<< [name |-> "nodes", gnetId |-> 1860, revision |-> 21, datasource |-> "Prometheus"],
              [name |-> "home", json |-> "{}"] >>) }

GrafanaExtras ==
    { [datasources |-> undefined, persistence |-> undefined,
       namespace |-> undefined, version |-> undefined],
      [datasources |-> Some(<< [name |-> "prometheus", type |-> "prometheus",
                                url |-> "http://prometheus:9090"] >>),
       persistence |-> Some([enabled |-> Some(TRUE), sizeGB |-> Some(10),
                             storageClass |-> Some("fast")]),
       namespace |-> Some("monitoring"), version |-> Some("4.3.0")] }

GrafanaInputs ==
    {undefined} \cup
    { Some([dashboards |-> d, ingress |-> i,
            datasources |-> x.datasources, persistence |-> x.persistence,
            namespace |-> x.namespace, version |-> x.version]) :
        d \in DashboardLists,
        i \in {undefined} \cup {Some(spec) : spec \in IngressSpecs},
        x \in GrafanaExtras }

\* new Grafana(name, props)
BuildGrafana(props, seed) ==
    /\ stack.version < MaxRuns
    /\ grafana = undefined
    /\ LET password == RandomString(PasswordResource, PasswordArgs, seed)
       IN  /\ stack' = [stack EXCEPT !.resources = Spread(@, PasswordResource :> password)]
           /\ grafana' = Some([props |-> props,
                               ingress |-> Chain(props, "ingress"),
                               persistence |-> Chain(props, "persistence"),
                               adminUsername |-> "admin",
                               adminPassword |-> password.result,
                               meta |-> GrafanaMeta(props),
                               values |-> GrafanaValues(name, props, password.result)])
    /\ UNCHANGED <<name, nginx, metallb>>

\* the operator has the engine replace the secret: it is drawn again by the next run
ReplaceSecret ==
    /\ grafana = undefined
    /\ PasswordResource \in DOMAIN stack.resources
    /\ stack' = [stack EXCEPT !.resources =
                    [r \in DOMAIN @ \ {PasswordResource} |-> @[r]]]
    /\ UNCHANGED <<name, nginx, grafana, metallb>>

NextGrafana ==
    \/ \E props \in GrafanaInputs, seed \in 0..MaxSeed : BuildGrafana(props, seed)
    \/ ReplaceSecret
    \/ EndRun

SpecGrafana == Init /\ [][NextGrafana]_vars

-----------------------------------------------------------------------------
(* MetalLB: src/unnamed/part_000 *)

AddressPoolValues(props) ==
    LET pools == Chain(props, "addressPools")
    IN  IF pools = undefined THEN undefined
        ELSE Some([i \in DOMAIN Val(pools) |->
                    [name |-> Val(pools)[i].name,
                     protocol |-> Val(pools)[i].protocol,
                     addresses |-> Val(pools)[i].addresses]
                    @@ ("avoid-buggy-ips" :> TRUE)])

MetalLBValues(props) ==
    [configInline |-> ("address-pools" :> AddressPoolValues(props)),
     prometheus |-> [scrapeAnnotations |-> TRUE]]

MetalLBMeta(props) ==
    [chart |-> "metallb",
     version |-> Nullish(Chain(props, "version"), "0.12.0"),
     repo |-> "https://kubernetes-charts.storage.googleapis.com"]

(* the inputs tried *)

Pools ==
    { [name |-> "default", protocol |-> "layer2", addresses |-> <<"192.168.1.240-192.168.1.250">>],
      [name |-> "public", protocol |-> "layer2", addresses |-> <<"10.0.0.0/28", "10.0.1.0/28">>],
      [name |-> "empty", protocol |-> "layer2", addresses |-> <<>>] }

PoolLists == UNION {[1..n -> Pools] : n \in 0..MaxPools}

MetalLBInputs ==
    {undefined} \cup
    { Some([addressPools |-> p, namespace |-> ns, version |-> v]) :
        p \in {undefined} \cup {Some(l) : l \in PoolLists},
        ns \in {undefined, Some("metallb-system")},
        v \in {undefined, Some("0.12.1")} }

\* new MetalLB(name, props)
BuildMetalLB(props) ==
    /\ stack.version < MaxRuns
    /\ metallb = undefined
    /\ metallb' = Some([props |-> props,
                        meta |-> MetalLBMeta(props),
                        values |-> MetalLBValues(props)])
    /\ UNCHANGED <<name, nginx, grafana, stack>>

NextMetalLB ==
    \/ \E props \in MetalLBInputs : BuildMetalLB(props)
    \/ EndRun

SpecMetalLB == Init /\ [][NextMetalLB]_vars

-----------------------------------------------------------------------------
(* Properties of NginxIngress *)

\* the replica count the caller asked for, 1 when none is given
EffectiveReplicas(props) ==
    LET mode == Chain(props, "mode")
    IN  IF mode = undefined THEN 1 ELSE Nullish(Val(mode).replicas, 1)

\* the selector of an anti-affinity block, as the set of <<key, values>> it requires
SelectorOf(block) ==
    LET terms == block.podAntiAffinity.preferredDuringSchedulingIgnoredDuringExecution
        exprs == terms[1].podAffinityTerm.labelSelector.matchExpressions
    IN  {<<exprs[i].key, exprs[i].operator, exprs[i].values>> : i \in DOMAIN exprs}

C6_IngressServiceCreated ==
    nginx # undefined =>
        LET n == Val(nginx)
            svc == n.values.controller.service
        IN  /\ n.ingressService.name = n.values.fullnameOverride \o "-controller"
            /\ ~ ("enabled" \in DOMAIN svc /\ svc.enabled = FALSE)

\* the table given for a protocol, empty when none is given
GivenTable(props, field) == Nullish(Chain(props, field), EmptyObject)

\* "<namespace>/<serviceName>:<servicePort>"
ExpectedLocator(b) == b.namespace \o "/" \o b.serviceName \o ":" \o ToString(b.servicePort)

L4BlockMatches(block, table) ==
    /\ DOMAIN block = DOMAIN table
    /\ \A port \in DOMAIN table : block[port] = ExpectedLocator(table[port])

\* C8: the tcp block has exactly the ports of the TCP table, each mapped to the
\* locator of its own backend, and likewise the udp block and the UDP table.
C8_L4BlocksMatchTables ==
    nginx # undefined =>
        /\ L4BlockMatches(Val(nginx).values.tcp, GivenTable(Val(nginx).props, "tcpServices"))
        /\ L4BlockMatches(Val(nginx).values.udp, GivenTable(Val(nginx).props, "udpServices"))

\* C8's case: two TCP ports with different backends and a UDP port, each resolved
C8_Witness ==
    /\ nginx # undefined
    /\ DOMAIN Val(nginx).values.tcp = {53, 5432}
    /\ Val(nginx).values.tcp[5432] = "db/postgres:5432"
    /\ Val(nginx).values.tcp[53] = "kube-system/kube-dns:53"
    /\ DOMAIN Val(nginx).values.udp = {53}

\* C10: every label the emitted anti-affinity selector requires is one of the
\* pod labels the same values tree sets on the controller pods.
C10_SelectorMatchesPodLabels ==
    nginx # undefined =>
        LET c == Val(nginx).values.controller
        IN  (c.kind = "Deployment" /\ c.affinity # undefined) =>
                \A e \in SelectorOf(Val(c.affinity)) :
                    /\ e[1] \in DOMAIN c.podLabels
                    /\ \E i \in DOMAIN e[3] : e[3][i] = c.podLabels[e[1]]

-----------------------------------------------------------------------------
(* Properties of Grafana *)

\* the ingress spec a Grafana instance was built from ({} when none was given)
GivenIngress == Chain(Val(grafana).props, "ingress")

\* the annotations the caller gave in the ingress spec (none: the empty object)
GivenAnnotations == Nullish(Val(GivenIngress).annotations, EmptyObject)

EmittedAnnotations == Val(grafana).values.ingress.annotations

\* C2: with an ingress spec, every annotation the caller gave is emitted with the
\* caller's value, also when its key is one of the two computed ones.
C2_CallerAnnotationsKept ==
    (grafana # undefined /\ GivenIngress # undefined) =>
        \A k \in DOMAIN GivenAnnotations :
            /\ k \in DOMAIN EmittedAnnotations
            /\ EmittedAnnotations[k] = GivenAnnotations[k]

\* C2's case: the caller's class annotation 'custom' collides with the computed
\* one, here computed from the class field 'traefik', and is the one emitted
C2_Witness ==
    /\ grafana # undefined
    /\ GivenIngress # undefined
    /\ Val(GivenIngress).class = Some("traefik")
    /\ ClassKey \in DOMAIN GivenAnnotations
    /\ GivenAnnotations[ClassKey] = "custom"
    /\ EmittedAnnotations[ClassKey] = "custom"

\* the annotation value the TLS flag alone stands for
TlsFlagValue == IF Val(GivenIngress).tls = Some(FALSE) THEN "false" ELSE "true"

\* C3 as stated: with an ingress spec, whatever the class, hosts and caller
\* annotations, the emitted tls-acme annotation is 'true' when the TLS flag is
\* unset or true and 'false' when it is false.
C3_TlsAcmeFollowsFlag ==
    (grafana # undefined /\ GivenIngress # undefined) =>
        EmittedAnnotations[TlsAcmeKey] = TlsFlagValue

\* C3 as amended: the emitted tls-acme annotation follows the TLS flag ('false'
\* when the flag is false, 'true' when it is unset or true) unless the caller's
\* annotations hold the tls-acme key, and then it is the caller's value.
C3_TlsAcmeFollowsFlagUnlessGiven ==
    (grafana # undefined /\ GivenIngress # undefined) =>
        /\ TlsAcmeKey \in DOMAIN EmittedAnnotations
        /\ EmittedAnnotations[TlsAcmeKey] =
              IF TlsAcmeKey \in DOMAIN GivenAnnotations
              THEN GivenAnnotations[TlsAcmeKey]
              ELSE TlsFlagValue

\* C3's case: the flag is unset, the caller gave other annotations, 'true' is emitted
C3_Witness ==
    /\ grafana # undefined
    /\ GivenIngress # undefined
    /\ Val(GivenIngress).tls = undefined
    /\ DOMAIN GivenAnnotations # {}
    /\ TlsAcmeKey \notin DOMAIN GivenAnnotations
    /\ EmittedAnnotations[TlsAcmeKey] = "true"

\* the number of dashboards given
DashboardCount ==
    LET d == Chain(Val(grafana).props, "dashboards")
    IN  IF d = undefined THEN 0 ELSE Len(Val(d))

\* C4: the dashboards and dashboardProviders blocks are absent when zero
\* dashboards were given (none, or an empty list) and present otherwise.
C4_NoDashboardsNoBlocks ==
    grafana # undefined =>
        /\ (Val(grafana).values.dashboards = undefined) <=> (DashboardCount = 0)
        /\ (Val(grafana).values.dashboardProviders = undefined) <=> (DashboardCount = 0)

\* the hostnames given ({} absent; ingress absent counts as absent)
GivenHosts == Chain(GivenIngress, "hosts")

NoHostnames == GivenHosts = undefined \/ Val(GivenHosts) = <<>>

\* C5: without hostnames there are no domain-derived server settings and no TLS
\* host/secret block; with hostnames, domain is the first one and root_url is
\* 'https://' followed by it.
C5_NoHostsNoDomain ==
    grafana # undefined =>
        LET v == Val(grafana).values
        IN  /\ NoHostnames =>
                /\ v["grafana.ini"].server = undefined
                /\ ("tls" \notin DOMAIN v.ingress \/ v.ingress.tls = <<>>)
            /\ ~ NoHostnames =>
                /\ v["grafana.ini"].server # undefined
                /\ Val(v["grafana.ini"].server).domain = Some(Val(GivenHosts)[1])
                /\ Val(v["grafana.ini"].server).root_url = "https://" \o Val(GivenHosts)[1]

\* C7: the administrator password of every build is 32 characters with no
\* special character; a build that finds the secret in the stack takes its
\* value, and the stack's value changes only by being replaced, so the password
\* of every build equals the first one's until the secret is replaced.
C7_PasswordStable ==
    [][ /\ grafana' # undefined =>
            /\ Len(Val(grafana').adminPassword) = 32
            /\ \A i \in DOMAIN Val(grafana').adminPassword :
                    Val(grafana').adminPassword[i] \notin SpecialChars
            /\ Val(grafana').values.adminPassword = Val(grafana').adminPassword
            /\ PasswordResource \in DOMAIN stack.resources =>
                    Val(grafana').adminPassword = stack.resources[PasswordResource].result
        /\ (PasswordResource \in DOMAIN stack.resources
              /\ PasswordResource \in DOMAIN stack'.resources) =>
                stack'.resources[PasswordResource] = stack.resources[PasswordResource]
      ]_vars

\* C7's case: a build in a later run, with the secret of the earlier run
C7_Witness ==
    /\ grafana # undefined
    /\ stack.version >= 1
    /\ Val(grafana).adminPassword = Generate(PasswordArgs, 0)
    /\ Val(grafana).props # undefined

-----------------------------------------------------------------------------
(* Properties of MetalLB *)

\* C9: with no address pools given (none, or an empty list) the 'address-pools'
\* value is absent from the values tree.
C9_NoPoolsNoList ==
    metallb # undefined =>
        LET pools == Chain(Val(metallb).props, "addressPools")
        IN  (pools = undefined \/ Val(pools) = <<>>) =>
                Val(metallb).values.configInline["address-pools"] = undefined

=============================================================================
